---- MODULE Spec2Model ----
(***************************************************************************)
(* Wind validation dashboard: the power-curve model, the series transform  *)
(* and the statistics engine, with the values they are called on.          *)
(*                                                                         *)
(* JavaScript numbers are modelled as exact extended rationals [n, d]:     *)
(*   d > 0            the finite number n/d, in lowest terms               *)
(*   d = 0, n = 0     NaN                                                  *)
(*   d = 0, n = 1     +Infinity                                            *)
(*   d = 0, n = -1    -Infinity                                            *)
(*   d = -1           the JavaScript value undefined                       *)
(* Rounding of IEEE doubles is not modelled: finite arithmetic is exact.   *)
(* Wind speeds are in metres per second, capacity factors are fractions.   *)
(***************************************************************************)
EXTENDS Integers, Sequences, FiniteSets, TLC

VARIABLES
    call,               \* the last invocation of a function or handler: name, arguments, result
    presets,            \* constants.js: the exported objects OPTIMAL_PARAMS and DEFAULT_PARAMS
    data,               \* App: useState(null), the parsed preprocessed.json
    multiResourceData,  \* App: useState(null), the parsed multi_resource.json
    loading,            \* App: useState(true)
    error,              \* App: useState(null)
    params,             \* App: useState(OPTIMAL_PARAMS)
    modelCF,            \* App: the useMemo'd model CF series of the last render
    render,             \* App: the rest of the last render, the view shown and the
                        \* memos actualCF and stats
    sweep               \* the CapacitySweep component: its state and its memos, the
                        \* cached chartData as the values it was computed for;
                        \* null while not mounted

vars ==
    <<call, presets, data, multiResourceData, loading, error, params, modelCF, render, sweep>>

appVars ==
    <<presets, data, multiResourceData, loading, error, params, modelCF, render, sweep>>

(***************************************************************************)
(* Numbers                                                                 *)
(***************************************************************************)
Abs(i) == IF i < 0 THEN -i ELSE i

Sign(i) == IF i < 0 THEN -1 ELSE IF i > 0 THEN 1 ELSE 0

RECURSIVE GCD(_, _)
GCD(a, b) == IF b = 0 THEN a ELSE GCD(b, a % b)

\* The finite number n/d (d # 0) in lowest terms with a positive denominator.
Num(n, d) ==
    LET g == GCD(Abs(n), Abs(d))
        s == IF d < 0 THEN -1 ELSE 1
    IN  [n |-> (s * n) \div g, d |-> (s * d) \div g]

NaN == [n |-> 0, d |-> 0]
Infinity == [n |-> 1, d |-> 0]
NegInfinity == [n |-> -1, d |-> 0]
Undefined == [n |-> 0, d |-> -1]
Zero == [n |-> 0, d |-> 1]
One == [n |-> 1, d |-> 1]

IsUndefined(a) == a.d = -1
IsNaN(a) == a.d = 0 /\ a.n = 0
IsFinite(a) == a.d > 0
IsInf(a) == a.d = 0 /\ a.n # 0

\* ToNumber: undefined converts to NaN, a number to itself.
ToNumber(a) == IF IsUndefined(a) THEN NaN ELSE a

\* ToBoolean of a number or undefined: undefined, NaN and 0 are falsy.
Truthy(a) == ~IsUndefined(a) /\ ~IsNaN(a) /\ a # Zero

\* a || b
OrElse(a, b) == IF Truthy(a) THEN a ELSE b

\* a === b on numbers (NaN is not equal to itself).
StrictEq(a, b) ==
    LET x == ToNumber(a)
        y == ToNumber(b)
    IN  ~IsNaN(x) /\ ~IsNaN(y) /\ x = y

\* a < b: false when either side is NaN.
Lt(a, b) ==
    LET x == ToNumber(a)
        y == ToNumber(b)
    IN  /\ ~IsNaN(x)
        /\ ~IsNaN(y)
        /\ IF IsInf(x) /\ IsInf(y) THEN x.n < y.n
           ELSE IF IsInf(x) THEN x.n < 0
           ELSE IF IsInf(y) THEN y.n > 0
           ELSE LET g == GCD(x.d, y.d)
                IN  x.n * (y.d \div g) < y.n * (x.d \div g)

Gt(a, b) == Lt(b, a)

\* a >= b: false when either side is NaN.
Ge(a, b) ==
    LET x == ToNumber(a)
        y == ToNumber(b)
    IN  ~IsNaN(x) /\ ~IsNaN(y) /\ ~Lt(x, y)

Le(a, b) == Ge(b, a)

Neg(a) ==
    LET x == ToNumber(a)
    IN  IF IsFinite(x) THEN [n |-> -x.n, d |-> x.d] ELSE [n |-> -x.n, d |-> 0]

\* a + b
Add(a, b) ==
    LET x == ToNumber(a)
        y == ToNumber(b)
    IN  IF IsNaN(x) \/ IsNaN(y) THEN NaN
        ELSE IF IsInf(x) /\ IsInf(y) THEN (IF x.n = y.n THEN x ELSE NaN)
        ELSE IF IsInf(x) THEN x
        ELSE IF IsInf(y) THEN y
        ELSE LET g == GCD(x.d, y.d)
             IN  Num(x.n * (y.d \div g) + y.n * (x.d \div g), (x.d \div g) * y.d)

\* a - b
Sub(a, b) == Add(a, Neg(b))

\* a * b
Mul(a, b) ==
    LET x == ToNumber(a)
        y == ToNumber(b)
    IN  IF IsNaN(x) \/ IsNaN(y) THEN NaN
        ELSE IF IsInf(x) \/ IsInf(y)
             THEN (IF x.n = 0 \/ y.n = 0 THEN NaN
                   ELSE [n |-> Sign(x.n) * Sign(y.n), d |-> 0])
        ELSE LET g1 == GCD(Abs(x.n), y.d)
                 g2 == GCD(Abs(y.n), x.d)
             IN  [n |-> (x.n \div g1) * (y.n \div g2),
                  d |-> (x.d \div g2) * (y.d \div g1)]

\* a / b: x/0 is +-Infinity, 0/0 is NaN.
Div(a, b) ==
    LET x == ToNumber(a)
        y == ToNumber(b)
    IN  IF IsNaN(x) \/ IsNaN(y) THEN NaN
        ELSE IF IsInf(x) /\ IsInf(y) THEN NaN
        ELSE IF IsInf(x) THEN [n |-> x.n * (IF y.n < 0 THEN -1 ELSE 1), d |-> 0]
        ELSE IF IsInf(y) THEN Zero
        ELSE IF y.n = 0 THEN (IF x.n = 0 THEN NaN ELSE [n |-> Sign(x.n), d |-> 0])
        ELSE Mul(x, Num(y.d, y.n))

\* Math.min(a, b): NaN when either argument is NaN.
Min(a, b) ==
    LET x == ToNumber(a)
        y == ToNumber(b)
    IN  IF IsNaN(x) \/ IsNaN(y) THEN NaN
        ELSE IF Lt(y, x) THEN y ELSE x

\* Math.pow(a, k) for an integral exponent k >= 0 (Math.pow(x, 0) is 1 for every x).
RECURSIVE PowInt(_, _)
PowInt(a, k) == IF k = 0 THEN One ELSE Mul(ToNumber(a), PowInt(a, k - 1))

N(i) == Num(i, 1)

\* The literal 0.14 of powerCurve.js:11, powerCurve.js:72 and App.jsx:60.
DefaultShear == Num(14, 100)

\* Math.sqrt(x) of a finite x >= 0, rounded down to a multiple of 1/100.
SqrtApprox(x) ==
    LET top == 100 * ((x.n \div x.d) + 1)
        r == CHOOSE k \in 0..top :
                 /\ k * k * x.d <= 10000 * x.n
                 /\ (k + 1) * (k + 1) * x.d > 10000 * x.n
    IN  Num(r, 100)

\* Math.pow(a, e).  An integral exponent e >= 0 is computed exactly.  The
\* non-integral exponents of the model have irrational powers, which are
\* rounded: the default shear 0.14 is tabulated for the bases hubHeight/100
\* of the modelled hub heights, to two decimals (0.8^0.14 = 0.9692...,
\* 1.5^0.14 = 1.0584...); a half-integral exponent k + 1/2 (the default
\* power exponent 2.5) is a^k times the rounded square root of a.
Pow(a, e) ==
    LET x == ToNumber(a)
        k == ToNumber(e)
    IN  IF IsNaN(k) THEN NaN
        ELSE IF k = Zero THEN One
        ELSE IF IsNaN(x) THEN NaN
        ELSE IF k = DefaultShear
             THEN (IF x = One THEN One
                   ELSE IF x = Num(4, 5) THEN Num(97, 100)
                   ELSE Num(53, 50))
        ELSE IF k.d = 2
             THEN (IF IsFinite(x) /\ x.n >= 0
                   THEN Mul(PowInt(x, k.n \div 2), SqrtApprox(x))
                   ELSE IF x = Infinity THEN Infinity ELSE NaN)
        ELSE PowInt(x, k.n)

(***************************************************************************)
(* Power-curve model (src/utils/powerCurve.js)                             *)
(***************************************************************************)
\* Faulty variant: the hubHeight === 100 shortcut is dropped.
extrapolateWindSpeed_NoShortcut(ws100m, hubHeight, shearExponent) ==
    LET shear == IF IsUndefined(shearExponent) THEN DefaultShear ELSE shearExponent
    IN  Mul(ws100m, Pow(Div(hubHeight, N(100)), shear))

\* extrapolateWindSpeed(ws100m, hubHeight, shearExponent = 0.14): the default
\* replaces an argument that is undefined.
extrapolateWindSpeed(ws100m, hubHeight, shearExponent) ==
    LET shear == IF IsUndefined(shearExponent) THEN DefaultShear ELSE shearExponent
    IN  IF StrictEq(hubHeight, N(100)) THEN ws100m
        ELSE Mul(ws100m, Pow(Div(hubHeight, N(100)), shear))

\* Faulty variant: the ramp is clamped without being scaled by maxCf.
RampScaled_Unscaled(windSpeed, p) ==
    LET fraction == Pow(Div(Sub(windSpeed, p.cutIn), Sub(p.ratedSpeed, p.cutIn)),
                        p.exponent)
    IN  Min(fraction, p.maxCf)

\* The ramp expression of powerCurve.js:42-43.
RampScaled(windSpeed, p) ==
    LET fraction == Pow(Div(Sub(windSpeed, p.cutIn), Sub(p.ratedSpeed, p.cutIn)),
                        p.exponent)
    IN  Min(Mul(fraction, p.maxCf), p.maxCf)

\* Faulty variant: the rated-speed test runs before the cut-in / cut-out test.
applyPowerCurveTrace_RatedFirst(windSpeed, p) ==
    IF Ge(windSpeed, p.ratedSpeed)
    THEN [path |-> "rated", cf |-> p.maxCf]
    ELSE IF Lt(windSpeed, p.cutIn) \/ Gt(windSpeed, p.cutOut)
    THEN [path |-> "zero", cf |-> Zero]
    ELSE [path |-> "ramp", cf |-> RampScaled(windSpeed, p)]

\* Faulty variant: the cut-out test is inclusive (windSpeed >= cutOut).
applyPowerCurveTrace_CutOutInclusive(windSpeed, p) ==
    IF Lt(windSpeed, p.cutIn) \/ Ge(windSpeed, p.cutOut)
    THEN [path |-> "zero", cf |-> Zero]
    ELSE IF Ge(windSpeed, p.ratedSpeed)
    THEN [path |-> "rated", cf |-> p.maxCf]
    ELSE [path |-> "ramp", cf |-> RampScaled(windSpeed, p)]

\* Faulty variant: the rated-speed test is strict (windSpeed > ratedSpeed).
applyPowerCurveTrace_StrictRated(windSpeed, p) ==
    IF Lt(windSpeed, p.cutIn) \/ Gt(windSpeed, p.cutOut)
    THEN [path |-> "zero", cf |-> Zero]
    ELSE IF Gt(windSpeed, p.ratedSpeed)
    THEN [path |-> "rated", cf |-> p.maxCf]
    ELSE [path |-> "ramp", cf |-> RampScaled(windSpeed, p)]

\* applyPowerCurve with the branch it returns from: "zero" (line 38),
\* "rated" (line 39) or "ramp" (lines 42-43).
applyPowerCurveTrace(windSpeed, p) ==
    IF Lt(windSpeed, p.cutIn) \/ Gt(windSpeed, p.cutOut)
    THEN [path |-> "zero", cf |-> Zero]
    ELSE IF Ge(windSpeed, p.ratedSpeed)
    THEN [path |-> "rated", cf |-> p.maxCf]
    ELSE [path |-> "ramp", cf |-> RampScaled(windSpeed, p)]

applyPowerCurve(windSpeed, p) == applyPowerCurveTrace(windSpeed, p).cf

\* calculateModelCF(hourlyData, params)
calculateModelCFHour(hour, p) ==
    applyPowerCurve(
        extrapolateWindSpeed(hour.wind_speed_100m, p.hubHeight,
                             OrElse(hour.shear_exponent, DefaultShear)),
        p)

calculateModelCF(hourlyData, p) ==
    [i \in 1..Len(hourlyData) |-> calculateModelCFHour(hourlyData[i], p)]

(***************************************************************************)
(* The model series of App (src/App.jsx)                                   *)
(***************************************************************************)
\* windData: null (modelled as the empty record of series) without data.
windData(hourly) ==
    [speeds |-> [i \in 1..Len(hourly) |-> hourly[i].wind_speed_100m],
     shears |-> [i \in 1..Len(hourly) |-> OrElse(hourly[i].shear_exponent, DefaultShear)]]

\* Faulty variant: the ramp value is stored without the Math.min clamp.
modelCFTrace_NoClamp(speed, shear, p) ==
    LET ws == IF StrictEq(p.hubHeight, N(100)) THEN speed
              ELSE Mul(speed, Pow(Div(p.hubHeight, N(100)), shear))
    IN  IF Lt(ws, p.cutIn) \/ Gt(ws, p.cutOut)
        THEN [path |-> "zero", cf |-> Zero, ws |-> ws]
        ELSE IF Ge(ws, p.ratedSpeed)
        THEN [path |-> "rated", cf |-> p.maxCf, ws |-> ws]
        ELSE [path |-> "ramp", ws |-> ws,
              cf |-> Pow(Div(Sub(ws, p.cutIn), Sub(p.ratedSpeed, p.cutIn)), p.exponent)]

\* One iteration of the inline loop of App.jsx:71-84, with the branch taken.
modelCFTrace(speed, shear, p) ==
    LET ws == IF StrictEq(p.hubHeight, N(100)) THEN speed
              ELSE Mul(speed, Pow(Div(p.hubHeight, N(100)), shear))
    IN  IF Lt(ws, p.cutIn) \/ Gt(ws, p.cutOut)
        THEN [path |-> "zero", cf |-> Zero, ws |-> ws]
        ELSE IF Ge(ws, p.ratedSpeed)
        THEN [path |-> "rated", cf |-> p.maxCf, ws |-> ws]
        ELSE LET rawCF == Pow(Div(Sub(ws, p.cutIn), Sub(p.ratedSpeed, p.cutIn)),
                              p.exponent)
             IN  [path |-> "ramp", cf |-> Min(rawCF, p.maxCf), ws |-> ws]

\* modelCF = useMemo(..., [windData, params])
ModelCFOf(wd, p) ==
    [i \in 1..Len(wd.speeds) |-> modelCFTrace(wd.speeds[i], wd.shears[i], p).cf]

(***************************************************************************)
(* The second wind resource (src/components/CapacitySweep.jsx)             *)
(***************************************************************************)
\* The local applyPowerCurve(windSpeed, shear, params) of CapacitySweep.jsx:66-81.
sweepApplyPowerCurveTrace(windSpeed, shear, p) ==
    LET ws == IF StrictEq(p.hubHeight, N(100)) THEN windSpeed
              ELSE Mul(windSpeed, Pow(Div(p.hubHeight, N(100)), shear))
    IN  IF Lt(ws, p.cutIn) \/ Gt(ws, p.cutOut)
        THEN [path |-> "zero", cf |-> Zero, ws |-> ws]
        ELSE IF Ge(ws, p.ratedSpeed)
        THEN [path |-> "rated", cf |-> p.maxCf, ws |-> ws]
        ELSE LET rawCF == Pow(Div(Sub(ws, p.cutIn), Sub(p.ratedSpeed, p.cutIn)),
                              p.exponent)
             IN  [path |-> "ramp", cf |-> Min(rawCF, p.maxCf), ws |-> ws]

sweepApplyPowerCurve(windSpeed, shear, p) == sweepApplyPowerCurveTrace(windSpeed, shear, p).cf

(***************************************************************************)
(* Statistics engine (src/utils/calculations.js)                           *)
(***************************************************************************)
\* A correlation coefficient is a quotient by a square root, which a rational
\* cannot hold: it is kept as its sign and its square, r = sgn * sqrt(sq).
\* NaN is sgn 0 with sq NaN; the number 0 is sgn 0 with sq 0.
RootZero == [sgn |-> 0, sq |-> Zero]
RootNaN == [sgn |-> 0, sq |-> NaN]

\* num / Math.sqrt(rad)
RootQuot(num, rad) ==
    LET a == ToNumber(num)
        b == ToNumber(rad)
    IN  IF IsNaN(a) \/ IsNaN(b) \/ Lt(b, Zero) THEN RootNaN
        ELSE IF b = Zero
             THEN (IF a = Zero THEN RootNaN ELSE [sgn |-> Sign(a.n), sq |-> Infinity])
        ELSE [sgn |-> Sign(a.n), sq |-> Div(Mul(a, a), b)]

\* r * r
RootSquare(r) == r.sq

\* s[i] of a JavaScript array (i from 0): undefined past the end.
Elem(s, i) == IF i + 1 \in 1..Len(s) THEN s[i + 1] ELSE Undefined

\* arr.reduce((a, b) => a + b, 0)
RECURSIVE SumPrefix(_, _)
SumPrefix(s, k) == IF k = 0 THEN Zero ELSE Add(SumPrefix(s, k - 1), s[k])

Sum(s) == SumPrefix(s, Len(s))

\* The sum over i = 0 .. n-1 of (a[i] - meanA) * (b[i] - meanB).
RECURSIVE SumDevProducts(_, _, _, _, _)
SumDevProducts(a, meanA, b, meanB, n) ==
    IF n = 0 THEN Zero
    ELSE Add(SumDevProducts(a, meanA, b, meanB, n - 1),
             Mul(Sub(Elem(a, n - 1), meanA), Sub(Elem(b, n - 1), meanB)))

\* Faulty variant: the guard tests only n === 0, not the two lengths.
calculateCorrelation_NoLengthCheck(x, y) ==
    LET n == Len(x)
        meanX == Div(Sum(x), N(n))
        meanY == Div(Sum(y), N(n))
        sumXY == SumDevProducts(x, meanX, y, meanY, n)
        sumX2 == SumDevProducts(x, meanX, x, meanX, n)
        sumY2 == SumDevProducts(y, meanY, y, meanY, n)
        radicand == Mul(sumX2, sumY2)
    IN  IF n = 0 THEN RootZero
        ELSE IF StrictEq(radicand, Zero) THEN RootZero
        ELSE RootQuot(sumXY, radicand)

\* Faulty variant: the denominator === 0 test is dropped.
calculateCorrelation_NoZeroDenominatorCheck(x, y) ==
    LET n == Len(x)
        meanX == Div(Sum(x), N(n))
        meanY == Div(Sum(y), N(n))
        sumXY == SumDevProducts(x, meanX, y, meanY, n)
        sumX2 == SumDevProducts(x, meanX, x, meanX, n)
        sumY2 == SumDevProducts(y, meanY, y, meanY, n)
        radicand == Mul(sumX2, sumY2)
    IN  IF n # Len(y) \/ n = 0 THEN RootZero
        ELSE RootQuot(sumXY, radicand)

\* Faulty variant: the denominator is Math.sqrt(sumX2 * sumX2), the variance of
\* x taken twice, which makes the result the regression slope.
calculateCorrelation_XVarianceTwice(x, y) ==
    LET n == Len(x)
        meanX == Div(Sum(x), N(n))
        meanY == Div(Sum(y), N(n))
        sumXY == SumDevProducts(x, meanX, y, meanY, n)
        sumX2 == SumDevProducts(x, meanX, x, meanX, n)
        radicand == Mul(sumX2, sumX2)
    IN  IF n # Len(y) \/ n = 0 THEN RootZero
        ELSE IF StrictEq(radicand, Zero) THEN RootZero
        ELSE RootQuot(sumXY, radicand)

\* Faulty variant: the denominator is sumX2 * sumY2, without the square root.
calculateCorrelation_NoSqrt(x, y) ==
    LET n == Len(x)
        meanX == Div(Sum(x), N(n))
        meanY == Div(Sum(y), N(n))
        sumXY == SumDevProducts(x, meanX, y, meanY, n)
        sumX2 == SumDevProducts(x, meanX, x, meanX, n)
        sumY2 == SumDevProducts(y, meanY, y, meanY, n)
        radicand == Mul(sumX2, sumY2)
    IN  IF n # Len(y) \/ n = 0 THEN RootZero
        ELSE IF StrictEq(radicand, Zero) THEN RootZero
        ELSE RootQuot(sumXY, Mul(radicand, radicand))

\* calculateCorrelation(x, y).  denominator = Math.sqrt(sumX2 * sumY2) is 0
\* exactly when the product is 0.
calculateCorrelation(x, y) ==
    LET n == Len(x)
        meanX == Div(Sum(x), N(n))
        meanY == Div(Sum(y), N(n))
        sumXY == SumDevProducts(x, meanX, y, meanY, n)
        sumX2 == SumDevProducts(x, meanX, x, meanX, n)
        sumY2 == SumDevProducts(y, meanY, y, meanY, n)
        radicand == Mul(sumX2, sumY2)
    IN  IF n # Len(y) \/ n = 0 THEN RootZero
        ELSE IF StrictEq(radicand, Zero) THEN RootZero
        ELSE RootQuot(sumXY, radicand)

\* The sum over i = 0 .. n-1 of (a[i] - b[i])^2.
RECURSIVE SumSquaredResiduals(_, _, _)
SumSquaredResiduals(a, b, n) ==
    IF n = 0 THEN Zero
    ELSE Add(SumSquaredResiduals(a, b, n - 1),
             Mul(Sub(Elem(a, n - 1), Elem(b, n - 1)), Sub(Elem(a, n - 1), Elem(b, n - 1))))

\* Faulty variant: the residual-based coefficient 1 - SSres / SStot.
calculateR2_Residual(actual, predicted) ==
    LET n == Len(actual)
        meanA == Div(Sum(actual), N(n))
        ssTot == SumDevProducts(actual, meanA, actual, meanA, n)
        ssRes == SumSquaredResiduals(actual, predicted, n)
    IN  IF n # Len(predicted) \/ n = 0 \/ StrictEq(ssTot, Zero) THEN Zero
        ELSE Sub(One, Div(ssRes, ssTot))

\* calculateR2(actual, predicted)
calculateR2(actual, predicted) == RootSquare(calculateCorrelation(actual, predicted))

\* Faulty variant: the slope is sumXY / sumX2 without the sumX2 === 0 test.
linearRegression_NoZeroVarianceCheck(x, y) ==
    LET n == Len(x)
        meanX == Div(Sum(x), N(n))
        meanY == Div(Sum(y), N(n))
        sumXY == SumDevProducts(x, meanX, y, meanY, n)
        sumX2 == SumDevProducts(x, meanX, x, meanX, n)
        slope == Div(sumXY, sumX2)
        intercept == Sub(meanY, Mul(slope, meanX))
        r == calculateCorrelation(x, y)
    IN  IF n # Len(y) \/ n = 0
        THEN [slope |-> Zero, intercept |-> Zero, r |-> RootZero, r2 |-> Zero]
        ELSE [slope |-> slope, intercept |-> intercept, r |-> r, r2 |-> RootSquare(r)]

\* linearRegression(x, y)
linearRegression(x, y) ==
    LET n == Len(x)
        meanX == Div(Sum(x), N(n))
        meanY == Div(Sum(y), N(n))
        sumXY == SumDevProducts(x, meanX, y, meanY, n)
        sumX2 == SumDevProducts(x, meanX, x, meanX, n)
        slope == IF StrictEq(sumX2, Zero) THEN Zero ELSE Div(sumXY, sumX2)
        intercept == Sub(meanY, Mul(slope, meanX))
        r == calculateCorrelation(x, y)
    IN  IF n # Len(y) \/ n = 0
        THEN [slope |-> Zero, intercept |-> Zero, r |-> RootZero, r2 |-> Zero]
        ELSE [slope |-> slope, intercept |-> intercept, r |-> r, r2 |-> RootSquare(r)]

\* The two comparators: (a, b) => b - a of generateDurationCurve and, for the
\* faulty variant below, (a, b) => a - b.
Compare(compareFn, a, b) == IF compareFn = "b - a" THEN Sub(b, a) ELSE Sub(a, b)

\* Array.prototype.sort(compareFn) on a copy: a stable sort, here by insertion.
\* x goes before the first element e of the sorted prefix with
\* compareFn(e, x) > 0; a comparison that is 0 or NaN leaves the two in their order.
RECURSIVE InsertBy(_, _, _)
InsertBy(compareFn, sorted, x) ==
    IF sorted = <<>> THEN <<x>>
    ELSE IF Gt(Compare(compareFn, Head(sorted), x), Zero) THEN <<x>> \o sorted
    ELSE <<Head(sorted)>> \o InsertBy(compareFn, Tail(sorted), x)

RECURSIVE SortPrefix(_, _, _)
SortPrefix(compareFn, arr, k) ==
    IF k = 0 THEN <<>> ELSE InsertBy(compareFn, SortPrefix(compareFn, arr, k - 1), arr[k])

\* Faulty variant: the comparator is a - b, which sorts from low to high.
generateDurationCurve_Ascending(cfArray) ==
    LET sorted == SortPrefix("a - b", cfArray, Len(cfArray))
    IN  [i \in 1..Len(sorted) |-> [hour |-> i - 1, cf |-> sorted[i]]]

\* generateDurationCurve(cfArray): entry i (from 0) of the result is result[i + 1].
generateDurationCurve(cfArray) ==
    LET sorted == SortPrefix("b - a", cfArray, Len(cfArray))
    IN  [i \in 1..Len(sorted) |-> [hour |-> i - 1, cf |-> sorted[i]]]

\* Faulty variant: cfArray.sort(...) without the spread, so that sorted is the
\* array cfArray itself and the caller's array is reordered.
generateDurationCurveArrays_NoCopy(cfArray) ==
    LET sorted == SortPrefix("b - a", cfArray, Len(cfArray))
    IN  [cfArray |-> sorted, sorted |-> sorted]

\* The two arrays generateDurationCurve(cfArray) leaves behind: [...cfArray] is a
\* new array with the elements of cfArray, sort reorders that new array in place.
generateDurationCurveArrays(cfArray) ==
    LET spread == [cfArray |-> cfArray, sorted |-> cfArray]
    IN  [spread EXCEPT !.sorted = SortPrefix("b - a", @, Len(@))]

\* mean(arr)
mean(arr) == IF Len(arr) = 0 THEN Zero ELSE Div(Sum(arr), N(Len(arr)))

\* The stats memo of App.jsx:95-106 on the actualCF and modelCF of a render.
stats(actual, model) ==
    IF Len(actual) = 0 \/ Len(model) = 0
    THEN [r |-> RootZero, r2 |-> Zero, actualAvgCF |-> Zero, modelAvgCF |-> Zero]
    ELSE LET r == calculateCorrelation(actual, model)
         IN  [r |-> r, r2 |-> RootSquare(r),
              actualAvgCF |-> mean(actual), modelAvgCF |-> mean(model)]

\* totalMatched and totalGeneration after k iterations of the loop of
\* calculateHourlyMatch.
RECURSIVE HourlyMatchPrefix(_, _, _, _)
HourlyMatchPrefix(cfProfile, capacityMw, hourlyLoadMwh, k) ==
    IF k = 0 THEN [totalMatched |-> Zero, totalGeneration |-> Zero]
    ELSE LET before == HourlyMatchPrefix(cfProfile, capacityMw, hourlyLoadMwh, k - 1)
             hourlyGen == Mul(Elem(cfProfile, k - 1), capacityMw)
         IN  [totalMatched |-> Add(before.totalMatched, Min(hourlyGen, hourlyLoadMwh)),
              totalGeneration |-> Add(before.totalGeneration, hourlyGen)]

\* calculateHourlyMatch(cfProfile, capacityMw, baseloadGwh)
calculateHourlyMatch(cfProfile, capacityMw, baseloadGwh) ==
    LET hourlyLoadMwh == Div(Mul(baseloadGwh, N(1000)), N(8760))
        totals == HourlyMatchPrefix(cfProfile, capacityMw, hourlyLoadMwh, Len(cfProfile))
    IN  [matchPct |-> Mul(Div(totals.totalMatched, Mul(baseloadGwh, N(1000))), N(100)),
         annualGwh |-> Div(totals.totalGeneration, N(1000)),
         matchedGwh |-> Div(totals.totalMatched, N(1000))]

\* The point that iteration i of the loop of calculateCapacitySweep pushes.
capacitySweepPoint(cfProfile, baseloadGwh, avgCf, step, minGwh, i) ==
    LET targetGwh == Add(minGwh, Mul(N(i), step))
        capacityMw == Div(Mul(targetGwh, N(1000)), Mul(avgCf, N(8760)))
    IN  [gwh |-> targetGwh,
         matchPct |-> calculateHourlyMatch(cfProfile, capacityMw, baseloadGwh).matchPct]

\* calculateCapacitySweep(cfProfile, baseloadGwh, avgCf, numPoints, minGwh, maxGwh):
\* the function has no throw statement, it returns results after numPoints
\* iterations (none when numPoints <= 0).
calculateCapacitySweep(cfProfile, baseloadGwh, avgCf, numPoints, minGwh, maxGwh) ==
    LET step == Div(Sub(maxGwh, minGwh), N(numPoints - 1))
    IN  [outcome |-> "returns",
         step |-> step,
         results |-> [k \in 1..numPoints |->
                         capacitySweepPoint(cfProfile, baseloadGwh, avgCf, step, minGwh, k - 1)]]

(***************************************************************************)
(* Capacity-matching sweep (src/components/CapacitySweep.jsx)              *)
(***************************************************************************)
\* Math.abs(a)
AbsNum(a) ==
    LET x == ToNumber(a)
    IN  IF IsNaN(x) THEN NaN ELSE [n |-> Abs(x.n), d |-> x.d]

\* The sum over i = 0 .. k-1 of cfProfile[i] * genScale: the generation of the
\* scaled series before any clamp.
RECURSIVE GeneratedPrefix(_, _, _)
GeneratedPrefix(cfProfile, genScale, k) ==
    IF k = 0 THEN Zero
    ELSE Add(GeneratedPrefix(cfProfile, genScale, k - 1), Mul(Elem(cfProfile, k - 1), genScale))

\* totalMatched after k iterations of the loop of calculateMatchAtPct.
RECURSIVE MatchedPrefix(_, _, _, _)
MatchedPrefix(cfProfile, genScale, n, k) ==
    IF k = 0 THEN Zero
    ELSE LET hourlyGen == Mul(Elem(cfProfile, k - 1), genScale)
             hourlyLoad == Div(One, N(n))
         IN  Add(MatchedPrefix(cfProfile, genScale, n, k - 1), Min(hourlyGen, hourlyLoad))

\* Faulty variant: the hourly generation is accumulated without Math.min.
calculateMatchAtPct_NoClamp(cfProfile, avgCF, genPctOfLoad) ==
    LET scaleFactor == Div(genPctOfLoad, N(100))
        n == Len(cfProfile)
        genScale == Div(scaleFactor, Mul(avgCF, N(n)))
    IN  Mul(GeneratedPrefix(cfProfile, genScale, n), N(100))

\* calculateMatchAtPct(cfProfile, avgCF, genPctOfLoad)
calculateMatchAtPct(cfProfile, avgCF, genPctOfLoad) ==
    LET scaleFactor == Div(genPctOfLoad, N(100))
        n == Len(cfProfile)
        genScale == Div(scaleFactor, Mul(avgCF, N(n)))
    IN  Mul(MatchedPrefix(cfProfile, genScale, n, n), N(100))

\* One iteration of the loop of calculateMultiResourceMatch: the generation of
\* each source in hour i (from 0) as a fraction of the annual load.
multiResourceHour(mainWindCF, mainWindAvgCF, solarCF, solarAvgCF, wind2CF, wind2AvgCF, mainWindPct, solarPct, wind2Pct, i) ==
    LET n == N(Len(mainWindCF))
    IN  [mainWindGen |-> Div(Mul(Elem(mainWindCF, i), Div(mainWindPct, N(100))),
                             Mul(mainWindAvgCF, n)),
         solarGen |-> Div(Mul(Elem(solarCF, i), Div(solarPct, N(100))),
                          Mul(solarAvgCF, n)),
         wind2Gen |-> Div(Mul(Elem(wind2CF, i), Div(wind2Pct, N(100))),
                          Mul(wind2AvgCF, n)),
         hourlyLoad |-> Div(One, n)]

\* The loop of the faulty variant below: each source is clamped on its own.
RECURSIVE MultiMatchedPrefix_ClampEach(_, _, _, _, _, _, _, _, _, _)
MultiMatchedPrefix_ClampEach(mainWindCF, mainWindAvgCF, solarCF, solarAvgCF, wind2CF, wind2AvgCF, mainWindPct, solarPct, wind2Pct, k) ==
    IF k = 0 THEN Zero
    ELSE LET h == multiResourceHour(mainWindCF, mainWindAvgCF, solarCF, solarAvgCF,
                                    wind2CF, wind2AvgCF, mainWindPct, solarPct,
                                    wind2Pct, k - 1)
         IN  Add(MultiMatchedPrefix_ClampEach(mainWindCF, mainWindAvgCF, solarCF,
                                              solarAvgCF, wind2CF, wind2AvgCF,
                                              mainWindPct, solarPct, wind2Pct, k - 1),
                 Add(Add(Min(h.mainWindGen, h.hourlyLoad), Min(h.solarGen, h.hourlyLoad)),
                     Min(h.wind2Gen, h.hourlyLoad)))

\* totalMatched after k iterations of the loop of calculateMultiResourceMatch.
RECURSIVE MultiMatchedPrefix(_, _, _, _, _, _, _, _, _, _)
MultiMatchedPrefix(mainWindCF, mainWindAvgCF, solarCF, solarAvgCF, wind2CF, wind2AvgCF, mainWindPct, solarPct, wind2Pct, k) ==
    IF k = 0 THEN Zero
    ELSE LET h == multiResourceHour(mainWindCF, mainWindAvgCF, solarCF, solarAvgCF,
                                    wind2CF, wind2AvgCF, mainWindPct, solarPct,
                                    wind2Pct, k - 1)
             totalGen == Add(Add(h.mainWindGen, h.solarGen), h.wind2Gen)
         IN  Add(MultiMatchedPrefix(mainWindCF, mainWindAvgCF, solarCF, solarAvgCF,
                                    wind2CF, wind2AvgCF, mainWindPct, solarPct,
                                    wind2Pct, k - 1),
                 Min(totalGen, h.hourlyLoad))

\* Faulty variant: the clamp is applied to each source, not to their sum.
calculateMultiResourceMatch_ClampEach(mainWindCF, mainWindAvgCF, solarCF, solarAvgCF, wind2CF, wind2AvgCF, mainWindPct, solarPct, wind2Pct) ==
    Mul(MultiMatchedPrefix_ClampEach(mainWindCF, mainWindAvgCF, solarCF, solarAvgCF,
                                     wind2CF, wind2AvgCF, mainWindPct, solarPct,
                                     wind2Pct, Len(mainWindCF)),
        N(100))

\* calculateMultiResourceMatch(mainWindCF, mainWindAvgCF, solarCF, solarAvgCF,
\*                             wind2CF, wind2AvgCF, mainWindPct, solarPct, wind2Pct)
calculateMultiResourceMatch(mainWindCF, mainWindAvgCF, solarCF, solarAvgCF, wind2CF, wind2AvgCF, mainWindPct, solarPct, wind2Pct) ==
    Mul(MultiMatchedPrefix(mainWindCF, mainWindAvgCF, solarCF, solarAvgCF, wind2CF,
                           wind2AvgCF, mainWindPct, solarPct, wind2Pct, Len(mainWindCF)),
        N(100))

\* const minPct = 0, maxPct = 150, numPoints = 31
minPct == 0
maxPct == 150
numPoints == 31

\* wind2AvgCF = useMemo(...): 0.35 without a second wind resource.
wind2AvgCFOf(wind2CF) == IF Len(wind2CF) = 0 THEN Num(35, 100) ELSE mean(wind2CF)

\* multiResourceData?.solar?.cf || []
solarCFOf(multi) == IF multi = [null |-> TRUE] \/ multi.solar = [null |-> TRUE]
                    THEN <<>> ELSE multi.solar.cf

\* multiResourceData?.solar?.avg_cf || 0.20
solarAvgCFOf(multi) == IF multi = [null |-> TRUE] \/ multi.solar = [null |-> TRUE]
                       THEN Num(1, 5) ELSE OrElse(multi.solar.avg_cf, Num(1, 5))

\* The test of CapacitySweep.jsx:126 that selects the multi-resource calculation.
chartDataBlends(multi, wind2CF, advancedMode, solarPct, wind2Pct) ==
    /\ advancedMode
    /\ (Gt(solarPct, Zero) \/ Gt(wind2Pct, Zero))
    /\ Len(solarCFOf(multi)) > 0
    /\ Len(wind2CF) > 0

\* The average CF that chartData hands over with each of the two series
\* (CapacitySweep.jsx:129, 135, 142, 143): modelAvgCF is computed and not used.
chartDataAvgCF(actualCF, model) ==
    LET actualAvgCF == mean(actualCF)
        modelAvgCF == mean(model)
    IN  [actual |-> actualAvgCF, model |-> actualAvgCF]

\* Iteration i (from 0) of the loop of chartData.
chartDataPoint(i, actualCF, model, multi, wind2CF, wind2AvgCF, advancedMode, solarPct, wind2Pct) ==
    LET avgCF == chartDataAvgCF(actualCF, model)
        solarCF == solarCFOf(multi)
        solarAvgCF == solarAvgCFOf(multi)
        genPct == Add(N(minPct),
                      Mul(Div(N(i), N(numPoints - 1)), N(maxPct - minPct)))
        blend == chartDataBlends(multi, wind2CF, advancedMode, solarPct, wind2Pct)
        actualMatch == IF blend
                       THEN calculateMultiResourceMatch(actualCF, avgCF.actual, solarCF,
                                solarAvgCF, wind2CF, wind2AvgCF, genPct, solarPct, wind2Pct)
                       ELSE calculateMatchAtPct(actualCF, avgCF.actual, genPct)
        modelMatch == IF blend
                      THEN calculateMultiResourceMatch(model, avgCF.model, solarCF,
                               solarAvgCF, wind2CF, wind2AvgCF, genPct, solarPct, wind2Pct)
                      ELSE calculateMatchAtPct(model, avgCF.model, genPct)
    IN  [genPct |-> genPct, actual |-> actualMatch, model |-> modelMatch,
         gap |-> AbsNum(Sub(actualMatch, modelMatch))]

\* chartData = useMemo(...): entry i (from 0) is chartData(...)[i + 1].
chartData(actualCF, model, multi, wind2CF, wind2AvgCF, advancedMode, solarPct, wind2Pct) ==
    [k \in 1..numPoints |->
        chartDataPoint(k - 1, actualCF, model, multi, wind2CF, wind2AvgCF,
                       advancedMode, solarPct, wind2Pct)]

(***************************************************************************)
(* Duration curves (src/components/DurationCurves.jsx)                     *)
(***************************************************************************)
\* const step = Math.floor(actualDuration.length / 100)
durationStep(length) == length \div 100

\* The row the loop pushes for index i (from 0).
durationRow(actualDuration, modelDuration, i) ==
    [hour |-> actualDuration[i + 1].hour, actual |-> actualDuration[i + 1].cf,
     model |-> modelDuration[i + 1].cf]

\* After the loop: the last point is pushed when data (rows) is not empty and its
\* last row is not the one of the last hour.
durationLastPoint(actualDuration, modelDuration, rows) ==
    LET length == Len(actualDuration)
    IN  IF Len(rows) > 0 /\ rows[Len(rows)].hour # length - 1
        THEN Append(rows, durationRow(actualDuration, modelDuration, length - 1))
        ELSE rows

(***************************************************************************)
(* Parameter schema and presets (src/utils/constants.js)                   *)
(***************************************************************************)
DEFAULT_PARAMS ==
    [exponent |-> Num(5, 2), cutIn |-> N(3), ratedSpeed |-> Num(21, 2),
     cutOut |-> N(25), maxCf |-> Num(9, 10), hubHeight |-> N(100)]

OPTIMAL_PARAMS ==
    [exponent |-> N(2), cutIn |-> N(3), ratedSpeed |-> N(9),
     cutOut |-> N(25), maxCf |-> Num(81, 100), hubHeight |-> N(100)]

ParamNames == {"exponent", "cutIn", "ratedSpeed", "cutOut", "maxCf", "hubHeight"}

\* Faulty variant: the cut-in slider goes up to 8 m/s, the lowest rated speed.
ParamMax_CutInUpToRated(name) ==
    CASE name = "exponent" -> N(3)
      [] name = "cutIn" -> N(8)
      [] name = "ratedSpeed" -> N(15)
      [] name = "cutOut" -> N(30)
      [] name = "maxCf" -> One
      [] name = "hubHeight" -> N(150)

\* PARAMETERS[name].min and .max
ParamMin(name) ==
    CASE name = "exponent" -> N(2)
      [] name = "cutIn" -> N(3)
      [] name = "ratedSpeed" -> N(8)
      [] name = "cutOut" -> N(20)
      [] name = "maxCf" -> Num(7, 10)
      [] name = "hubHeight" -> N(80)

ParamMax(name) ==
    CASE name = "exponent" -> N(3)
      [] name = "cutIn" -> N(5)
      [] name = "ratedSpeed" -> N(15)
      [] name = "cutOut" -> N(30)
      [] name = "maxCf" -> One
      [] name = "hubHeight" -> N(150)

\* The slider stops of a parameter that the model moves the slider to: the two
\* ends of its range and, for the exponent, the stop half way.
SliderStops(name) ==
    {ParamMin(name), ParamMax(name)} \cup (IF name = "exponent" THEN {Num(5, 2)} ELSE {})

(***************************************************************************)
(* The App component (src/App.jsx)                                         *)
(***************************************************************************)
Null == [null |-> TRUE]

\* modelCF of a render: [] without data.
RenderModelCF(d, p) ==
    IF d = Null THEN <<>> ELSE ModelCFOf(windData(d.hourly), p)

(***************************************************************************)
(* Inputs of the pure functions                                            *)
(***************************************************************************)
\* Longest hourly dataset handed to a series transform.
MaxHours == 2

\* Hub-height wind speeds (m/s): below, at, between and above the thresholds.
FnSpeeds ==
    {Zero, N(1), Num(3, 2), N(3), Num(7, 2), N(5), Num(26, 5), N(6), N(8),
     Num(89, 10), N(9), Num(21, 2), N(20), N(25), N(26), N(30)}

FnCutIns == {Num(3, 2), N(3), N(5)}
FnRatedSpeeds == {N(3), N(5), Num(89, 10), N(9), Num(21, 2)}
FnCutOuts == {N(8), N(25)}
FnExponents == {N(0), N(1), N(2), N(3)}
FnMaxCfs == {Zero, Num(7, 10), Num(81, 100), Num(21, 25), One}
FnHubHeights == {N(80), N(100), N(150)}

\* Every parameter tuple over the sets above, the degenerate orderings included.
FnParams(hubs) ==
    [exponent : FnExponents, cutIn : FnCutIns, ratedSpeed : FnRatedSpeeds,
     cutOut : FnCutOuts, maxCf : FnMaxCfs, hubHeight : hubs]

\* cutIn < ratedSpeed < cutOut, exponent >= 0, 0 <= maxCf <= 1
ValidParams(p) ==
    /\ Lt(p.cutIn, p.ratedSpeed)
    /\ Lt(p.ratedSpeed, p.cutOut)
    /\ Ge(p.exponent, Zero)
    /\ Ge(p.maxCf, Zero)
    /\ Le(p.maxCf, One)

\* Hourly records of a dataset: 100 m wind speed, optional shear exponent
\* (Undefined when the record has none), observed capacity factor.
RecSpeeds == {N(2), N(6), N(10), N(26)}
RecShears == {Undefined, Zero, DefaultShear, One}
HourlyRecords ==
    [wind_speed_100m : RecSpeeds, shear_exponent : RecShears, actual_cf : {Num(1, 2)}]

RECURSIVE SeqsUpTo(_, _)
SeqsUpTo(S, k) ==
    IF k = 0 THEN {<<>>}
    ELSE LET shorter == SeqsUpTo(S, k - 1)
         IN  shorter \cup {Append(q, x) : q \in {r \in shorter : Len(r) = k - 1}, x \in S}

Datasets == SeqsUpTo(HourlyRecords, MaxHours)

\* Parameter tuples the series transforms are called with.
SeriesParams ==
    [exponent : {N(1), N(2)}, cutIn : {N(3)}, ratedSpeed : {N(3), N(9)},
     cutOut : {N(25)}, maxCf : {Num(81, 100), One}, hubHeight : FnHubHeights]

\* Parameter tuples the second wind resource is evaluated with.
SweepParams ==
    [exponent : FnExponents, cutIn : {N(3)}, ratedSpeed : {N(3), N(9)},
     cutOut : FnCutOuts, maxCf : FnMaxCfs, hubHeight : FnHubHeights]

\* Longest series handed to the statistics engine.
MaxLen == 3

\* Capacity factors of the series handed to the statistics engine.
StatValues == {Zero, Num(1, 2), One}

StatSeries == SeqsUpTo(StatValues, MaxLen)

NoCall == [fn |-> "none"]

\* applyPowerCurve(windSpeed, params) of powerCurve.js
CallApplyPowerCurve ==
    /\ call = NoCall
    /\ \E ws \in FnSpeeds, p \in FnParams({N(100)}) :
        LET t == applyPowerCurveTrace(ws, p)
        IN  /\ call' = [fn |-> "applyPowerCurve", ws |-> ws, p |-> p,
                        path |-> t.path, ret |-> applyPowerCurve(ws, p)]
            /\ UNCHANGED appVars

\* extrapolateWindSpeed(ws100m, hubHeight, shearExponent) of powerCurve.js
CallExtrapolateWindSpeed ==
    /\ call = NoCall
    /\ \E x \in FnSpeeds \cup {NaN}, h \in FnHubHeights,
       shear \in RecShears \cup {NaN} :
        /\ call' = [fn |-> "extrapolateWindSpeed", x |-> x, hubHeight |-> h,
                    shear |-> shear, ret |-> extrapolateWindSpeed(x, h, shear)]
        /\ UNCHANGED appVars

\* calculateModelCF(hourlyData, params) of powerCurve.js
CallCalculateModelCF ==
    /\ call = NoCall
    /\ \E hourly \in Datasets, p \in SeriesParams :
        /\ call' = [fn |-> "calculateModelCF", hourly |-> hourly, p |-> p,
                    ret |-> calculateModelCF(hourly, p)]
        /\ UNCHANGED appVars

\* The windData and modelCF memos of App, run on a loaded dataset.
CallModelCF ==
    /\ call = NoCall
    /\ \E hourly \in Datasets, p \in SeriesParams :
        LET wd == windData(hourly)
        IN  /\ call' = [fn |-> "modelCF", hourly |-> hourly, p |-> p, windData |-> wd,
                        trace |-> [i \in 1..Len(hourly) |->
                                      modelCFTrace(wd.speeds[i], wd.shears[i], p)],
                        ret |-> ModelCFOf(wd, p)]
            /\ UNCHANGED appVars

\* The local applyPowerCurve(windSpeed, shear, params) of CapacitySweep
CallSweepApplyPowerCurve ==
    /\ call = NoCall
    /\ \E speed \in RecSpeeds \cup {N(25)}, shear \in RecShears,
       p \in SweepParams :
        LET t == sweepApplyPowerCurveTrace(speed, shear, p)
        IN  /\ call' = [fn |-> "sweepApplyPowerCurve", speed |-> speed, shear |-> shear,
                        p |-> p, ws |-> t.ws, path |-> t.path,
                        ret |-> sweepApplyPowerCurve(speed, shear, p)]
            /\ UNCHANGED appVars

\* calculateCorrelation(x, y) of calculations.js
CallCalculateCorrelation ==
    /\ call = NoCall
    /\ \E x \in StatSeries, y \in StatSeries :
        /\ call' = [fn |-> "calculateCorrelation", x |-> x, y |-> y,
                    ret |-> calculateCorrelation(x, y)]
        /\ UNCHANGED appVars

\* linearRegression(x, y) of calculations.js
CallLinearRegression ==
    /\ call = NoCall
    /\ \E x \in StatSeries, y \in StatSeries :
        /\ call' = [fn |-> "linearRegression", x |-> x, y |-> y,
                    ret |-> linearRegression(x, y)]
        /\ UNCHANGED appVars

\* calculateR2(actual, predicted) of calculations.js
CallCalculateR2 ==
    /\ call = NoCall
    /\ \E x \in StatSeries, y \in StatSeries :
        /\ call' = [fn |-> "calculateR2", x |-> x, y |-> y, ret |-> calculateR2(x, y)]
        /\ UNCHANGED appVars

\* The stats memo of App: actualCF and modelCF both have one entry per hourly record.
CallStats ==
    /\ call = NoCall
    /\ \E x \in StatSeries, y \in StatSeries :
        /\ Len(x) = Len(y)
        /\ call' = [fn |-> "stats", x |-> x, y |-> y, ret |-> stats(x, y)]
        /\ UNCHANGED appVars

\* generateDurationCurve(cfArray) of calculations.js
CallGenerateDurationCurve ==
    /\ call = NoCall
    /\ \E x \in StatSeries :
        /\ call' = [fn |-> "generateDurationCurve", x |-> x,
                    cfArray |-> generateDurationCurveArrays(x).cfArray,
                    ret |-> generateDurationCurve(x)]
        /\ UNCHANGED appVars

\* Capacity-factor series with one entry per hourly record.
CfSeries == SeqsUpTo(StatValues, MaxHours)

\* genPctOfLoad: the sweep's range and beyond.
MatchPcts == {N(0), N(50), N(100), N(150), N(1000)}

\* calculateMatchAtPct(cfProfile, avgCF, genPctOfLoad) of CapacitySweep
CallCalculateMatchAtPct ==
    /\ call = NoCall
    /\ \E cf \in CfSeries, genPct \in MatchPcts :
        \E avgCF \in {mean(cf), Num(1, 2), Num(35, 100)} :
            /\ call' = [fn |-> "calculateMatchAtPct", cfProfile |-> cf, avgCF |-> avgCF,
                        genPct |-> genPct, ret |-> calculateMatchAtPct(cf, avgCF, genPct)]
            /\ UNCHANGED appVars

\* Numbers of sweep points a caller of calculateCapacitySweep passes.
SweepPointCounts == {-1, 0, 1, 2, 3}

\* calculateCapacitySweep(...) of calculations.js, for a baseload of 100 GWh.
CallCalculateCapacitySweep ==
    /\ call = NoCall
    /\ \E cf \in CfSeries, points \in SweepPointCounts :
        \E avgCf \in {mean(cf), Num(1, 2)}, maxGwh \in {N(0), N(100), N(300)} :
            /\ call' = [fn |-> "calculateCapacitySweep", cfProfile |-> cf,
                        baseloadGwh |-> N(100), avgCf |-> avgCf,
                        numPoints |-> points, minGwh |-> N(0), maxGwh |-> maxGwh,
                        ret |-> calculateCapacitySweep(cf, N(100), avgCf, points,
                                                       N(0), maxGwh)]
            /\ UNCHANGED appVars

\* Series of length n over the values of S.
SeriesOfLen(S, n) == {q \in SeqsUpTo(S, n) : Len(q) = n}

\* Cap on the rows of data that the loop of DurationCurves is followed for.
MaxRows == 6

\* The series DurationCurves is rendered with: actualCF and modelCF have one entry
\* per hourly record.
DurationInputs ==
    {[actualCF |-> x, modelCF |-> SubSeq(y, 1, Len(x))] :
         x \in SeqsUpTo({Zero, One}, MaxHours), y \in SeriesOfLen({Zero, One}, MaxHours)}

\* The chartData memo of DurationCurves up to its loop: the two calls of
\* generateDurationCurve and the step.  actualCF and modelCF are the caller's
\* arrays as the two calls leave them.
DurationCurvesChartData ==
    /\ call = NoCall
    /\ \E in \in DurationInputs :
        LET actualArrays == generateDurationCurveArrays(in.actualCF)
            modelArrays == generateDurationCurveArrays(in.modelCF)
            actualDuration == [k \in 1..Len(actualArrays.sorted) |->
                                  [hour |-> k - 1, cf |-> actualArrays.sorted[k]]]
            modelDuration == [k \in 1..Len(modelArrays.sorted) |->
                                 [hour |-> k - 1, cf |-> modelArrays.sorted[k]]]
        IN  call' = [fn |-> "DurationCurves", x |-> in.actualCF, y |-> in.modelCF,
                     actualCF |-> actualArrays.cfArray, modelCF |-> modelArrays.cfArray,
                     actualDuration |-> actualDuration, modelDuration |-> modelDuration,
                     step |-> durationStep(Len(actualDuration)),
                     i |-> 0, data |-> <<>>, pc |-> "loop"]
    /\ UNCHANGED appVars

\* One test of the loop condition of the chartData memo of DurationCurves: an
\* iteration (push, i += step), or the exit with the last point and the return.
DurationCurvesLoop ==
    /\ call.fn = "DurationCurves"
    /\ call.pc = "loop"
    /\ Len(call.data) < MaxRows
    /\ call' = IF call.i < Len(call.actualDuration)
               THEN [call EXCEPT !.data = Append(@, durationRow(call.actualDuration,
                                                         call.modelDuration, call.i)),
                                 !.i = @ + call.step]
               ELSE [call EXCEPT !.data = durationLastPoint(call.actualDuration,
                                                            call.modelDuration, @),
                                 !.pc = "done"]
    /\ UNCHANGED appVars

\* The solar and second wind series of multi_resource.json are as long as the
\* main series; the weights are slider positions from 0 to 100.
BlendPcts == {N(0), N(30), N(100)}

\* calculateMultiResourceMatch(...) of CapacitySweep
CallCalculateMultiResourceMatch ==
    /\ call = NoCall
    /\ \E main \in CfSeries \ {<<>>}, mainPct \in {N(50), N(150)},
          solarPct \in BlendPcts, wind2Pct \in BlendPcts :
        \E solar \in SeriesOfLen({Zero, One}, Len(main)),
           wind2 \in SeriesOfLen({Zero, Num(1, 2)}, Len(main)) :
            LET mainAvg == mean(main)
                solarAvg == OrElse(mean(solar), Num(1, 5))
                wind2Avg == wind2AvgCFOf(wind2)
            IN  /\ call' = [fn |-> "calculateMultiResourceMatch",
                            mainWindCF |-> main, mainWindAvgCF |-> mainAvg,
                            solarCF |-> solar, solarAvgCF |-> solarAvg,
                            wind2CF |-> wind2, wind2AvgCF |-> wind2Avg,
                            mainWindPct |-> mainPct, solarPct |-> solarPct,
                            wind2Pct |-> wind2Pct,
                            hours |-> [k \in 1..Len(main) |->
                                          multiResourceHour(main, mainAvg, solar, solarAvg,
                                              wind2, wind2Avg, mainPct, solarPct, wind2Pct,
                                              k - 1)],
                            ret |-> calculateMultiResourceMatch(main, mainAvg, solar,
                                        solarAvg, wind2, wind2Avg, mainPct, solarPct,
                                        wind2Pct)]
                /\ UNCHANGED appVars

\* The blend inputs of a render in advanced mode: the solar resource of
\* multi_resource.json (or none), the second wind series (or none) and the two
\* slider positions.  The resources' series are as long as the main series.
BlendInputs(n) ==
    LET solar == [cf |-> [k \in 1..n |-> IF k = 1 THEN One ELSE Zero],
                  avg_cf |-> Num(1, n)]
        wind2 == [k \in 1..n |-> Num(1, 2)]
    IN  {[multi |-> [solar |-> solar], wind2CF |-> wind2, solarPct |-> N(30), wind2Pct |-> N(20)],
         [multi |-> [solar |-> solar], wind2CF |-> wind2, solarPct |-> N(0), wind2Pct |-> N(0)],
         [multi |-> [solar |-> Null], wind2CF |-> wind2, solarPct |-> N(30), wind2Pct |-> N(20)],
         [multi |-> [solar |-> solar], wind2CF |-> <<>>, solarPct |-> N(100), wind2Pct |-> N(0)]}

\* Without advanced mode the blend inputs are not read: they stay as loaded and
\* as initialised, useState(30) and useState(20).
NoBlendInputs ==
    {[multi |-> [solar |-> Null], wind2CF |-> <<>>, solarPct |-> N(30), wind2Pct |-> N(20)]}

\* The chartData memo of CapacitySweep on the props and state of a render:
\* actualCF and modelCF have one entry per hourly record.
CallChartData ==
    /\ call = NoCall
    /\ \E actual \in CfSeries, advancedMode \in BOOLEAN :
        \E model \in SeriesOfLen({Zero, One}, Len(actual)),
           b \in (IF advancedMode /\ Len(actual) > 0 THEN BlendInputs(Len(actual))
                  ELSE NoBlendInputs) :
            /\ call' = [fn |-> "chartData", actualCF |-> actual, modelCF |-> model,
                        advancedMode |-> advancedMode, multi |-> b.multi,
                        wind2CF |-> b.wind2CF, solarPct |-> b.solarPct,
                        wind2Pct |-> b.wind2Pct,
                        blend |-> chartDataBlends(b.multi, b.wind2CF, advancedMode,
                                                  b.solarPct, b.wind2Pct),
                        avgCF |-> chartDataAvgCF(actual, model),
                        ret |-> chartData(actual, model, b.multi, b.wind2CF,
                                    wind2AvgCFOf(b.wind2CF), advancedMode,
                                    b.solarPct, b.wind2Pct)]
            /\ UNCHANGED appVars

\* The pure functions are called beside a dashboard that is still loading.
InitFn ==
    /\ call = NoCall
    /\ presets = [optimal |-> OPTIMAL_PARAMS, default |-> DEFAULT_PARAMS]
    /\ data = Null
    /\ multiResourceData = Null
    /\ loading = TRUE
    /\ error = Null
    /\ params = OPTIMAL_PARAMS
    /\ modelCF = <<>>
    /\ render = [view |-> "loading", actualCF |-> <<>>,
                 stats |-> [r |-> RootZero, r2 |-> Zero, actualAvgCF |-> Zero,
                            modelAvgCF |-> Zero]]
    /\ sweep = Null

NextFn ==
    \/ CallApplyPowerCurve
    \/ CallExtrapolateWindSpeed
    \/ CallCalculateModelCF
    \/ CallModelCF
    \/ CallSweepApplyPowerCurve
    \/ CallCalculateCorrelation
    \/ CallLinearRegression
    \/ CallCalculateR2
    \/ CallStats
    \/ CallGenerateDurationCurve
    \/ CallCalculateMatchAtPct
    \/ CallCalculateMultiResourceMatch
    \/ CallChartData
    \/ CallCalculateCapacitySweep
    \/ DurationCurvesChartData
    \/ DurationCurvesLoop

SpecFn == InitFn /\ [][NextFn]_vars

(***************************************************************************)
(* The dashboard                                                           *)
(***************************************************************************)
\* What the dashboard loads: preprocessed.json with its hourly records, and
\* multi_resource.json with the solar resource and the second wind resource
\* (their series are as long as the hourly records), or with neither.  The hours
\* stand for those of a year: one on the ramp of the curve, one that the cut-out
\* speed or the hub height takes out, one at rated power.
AppLoads ==
    LET ramp == [wind_speed_100m |-> N(6), shear_exponent |-> One, actual_cf |-> Num(1, 2)]
        high == [wind_speed_100m |-> N(22), shear_exponent |-> One, actual_cf |-> Num(1, 2)]
        rated == [wind_speed_100m |-> N(16), shear_exponent |-> Undefined, actual_cf |-> One]
    IN  {[data |-> [hourly |-> <<>>], multi |-> [solar |-> Null, wind2 |-> Null]],
         [data |-> [hourly |-> <<ramp>>],
          multi |-> [solar |-> [cf |-> <<One>>, avg_cf |-> One],
                     wind2 |-> [wind_speed_100m |-> <<N(22)>>, shear_exponent |-> <<One>>]]],
         [data |-> [hourly |-> <<high, rated>>],
          multi |-> [solar |-> [cf |-> <<One, Zero>>, avg_cf |-> Num(1, 2)],
                     wind2 |-> [wind_speed_100m |-> <<N(16), N(22)>>,
                                shear_exponent |-> <<Zero, One>>]]]}

\* err.message: of the two errors thrown for a response that is not ok, and of
\* the TypeError of a fetch that fails.
LoadErrors ==
    {"Failed to load main data", "Failed to load multi-resource data", "Failed to fetch"}

\* useMemo(fn, deps): the value of the last render when no dependency differs
\* from that render's, the newly computed one otherwise.
UseMemo(cached, depsBefore, depsNow, computed) ==
    IF depsNow = depsBefore THEN cached ELSE computed

\* [windData, params] of the modelCF memo; windData is itself a memo on [data].
modelCFDeps(d, p) == <<d, p>>

\* [data] of the actualCF memo.
actualCFDeps(d) == <<d>>

\* [actualCF, modelCF] of the stats memo.
statsDeps(actual, model) == <<actual, model>>

\* actualCF of a render: [] without data.
ActualCFOf(d) ==
    IF d = Null THEN <<>> ELSE [i \in 1..Len(d.hourly) |-> d.hourly[i].actual_cf]

\* Faulty variant: App without the early return on error.
ViewOf_NoErrorReturn(isLoading, err) ==
    IF isLoading THEN "loading" ELSE "dashboard"

\* The early returns of App: the loading screen, the error screen, the dashboard.
ViewOf(isLoading, err) ==
    IF isLoading THEN "loading" ELSE IF err # Null THEN "error" ELSE "dashboard"

\* Faulty variant: the dependency list of the wind2CF memo is [multiResourceData].
wind2CFDeps_NoParams(multi, p) == <<multi>>

\* [multiResourceData, params] of the wind2CF memo of CapacitySweep.
wind2CFDeps(multi, p) == <<multi, p>>

\* [wind2CF] of the wind2AvgCF memo.
wind2AvgCFDeps(wind2CF) == <<wind2CF>>

\* The dependency list of the chartData memo of CapacitySweep.
chartDataDeps(actual, model, multi, wind2CF, wind2AvgCF, advancedMode, solarPct, wind2Pct) ==
    <<actual, model, multi, wind2CF, wind2AvgCF, advancedMode, solarPct, wind2Pct>>

\* The values the function of the chartData memo reads when it is run.  The
\* cached chartData is kept as these values, chartDataFor: the array shown is
\* SweepChartData, chartData(...) of them.
chartDataInputs(actual, model, multi, wind2CF, wind2AvgCF, advancedMode, solarPct, wind2Pct) ==
    [actualCF |-> actual, modelCF |-> model, multiResourceData |-> multi,
     wind2CF |-> wind2CF, wind2AvgCF |-> wind2AvgCF, advancedMode |-> advancedMode,
     solarPct |-> solarPct, wind2Pct |-> wind2Pct]

\* The chartData array that CapacitySweep shows.
SweepChartData(component) ==
    LET in == component.chartDataFor
    IN  chartData(in.actualCF, in.modelCF, in.multiResourceData, in.wind2CF,
                  in.wind2AvgCF, in.advancedMode, in.solarPct, in.wind2Pct)

\* wind2CF of a render of CapacitySweep: [] without a second wind resource.
Wind2CFOf(multi, p) ==
    IF multi = Null \/ multi.wind2 = Null THEN <<>>
    ELSE [i \in 1..Len(multi.wind2.wind_speed_100m) |->
             sweepApplyPowerCurve(multi.wind2.wind_speed_100m[i],
                                  Elem(multi.wind2.shear_exponent, i - 1), p)]

\* The first render of CapacitySweep: useState(false), useState(30),
\* useState(20), and every memo computed.  props: actualCF, modelCF,
\* multiResourceData, params.
MountCapacitySweep(props) ==
    LET w == Wind2CFOf(props.multiResourceData, props.params)
        avg == wind2AvgCFOf(w)
    IN  [advancedMode |-> FALSE, solarPct |-> N(30), wind2Pct |-> N(20),
         wind2CF |-> w, wind2AvgCF |-> avg,
         chartDataFor |-> chartDataInputs(props.actualCF, props.modelCF,
                                          props.multiResourceData, w, avg, FALSE,
                                          N(30), N(20))]

\* The wind2CF memo in a later render of CapacitySweep: prev is the component as
\* the last render left it, before the props of that render, now the props of
\* this one.
RenderWind2CF(prev, before, now) ==
    UseMemo(prev.wind2CF,
            wind2CFDeps(before.multiResourceData, before.params),
            wind2CFDeps(now.multiResourceData, now.params),
            Wind2CFOf(now.multiResourceData, now.params))

\* The chartData memo in a later render, given this render's wind2CF and
\* wind2AvgCF, and with it the component as this render leaves it.
RenderChartData(prev, before, now, advancedMode, w, avg) ==
    [advancedMode |-> advancedMode, solarPct |-> prev.solarPct,
     wind2Pct |-> prev.wind2Pct, wind2CF |-> w, wind2AvgCF |-> avg,
     chartDataFor |->
         UseMemo(prev.chartDataFor,
                 chartDataDeps(before.actualCF, before.modelCF, before.multiResourceData,
                               prev.wind2CF, prev.wind2AvgCF, prev.advancedMode,
                               prev.solarPct, prev.wind2Pct),
                 chartDataDeps(now.actualCF, now.modelCF, now.multiResourceData,
                               w, avg, advancedMode, prev.solarPct, prev.wind2Pct),
                 chartDataInputs(now.actualCF, now.modelCF, now.multiResourceData,
                                 w, avg, advancedMode, prev.solarPct, prev.wind2Pct))]

\* The wind2AvgCF memo in a later render, given this render's wind2CF, followed
\* by the chartData memo.
RenderWind2AvgCF(prev, before, now, advancedMode, w) ==
    RenderChartData(prev, before, now, advancedMode, w,
                    UseMemo(prev.wind2AvgCF, wind2AvgCFDeps(prev.wind2CF),
                            wind2AvgCFDeps(w), wind2AvgCFOf(w)))

\* A later render of CapacitySweep: prev is the component as the last render left
\* it, before the props of that render, now the props of this one, advancedMode
\* the state of this one.
RenderCapacitySweep(prev, before, now, advancedMode) ==
    RenderWind2AvgCF(prev, before, now, advancedMode, RenderWind2CF(prev, before, now))

\* The props CapacitySweep is rendered with.
SweepProps(actual, model, multi, p) ==
    [actualCF |-> actual, modelCF |-> model, multiResourceData |-> multi, params |-> p]

\* A render of App after state was set: the memos of App, the view the early
\* returns select, and in the dashboard the render of CapacitySweep.
Render ==
    /\ modelCF' = UseMemo(modelCF, modelCFDeps(data, params),
                          modelCFDeps(data', params'), RenderModelCF(data', params'))
    /\ LET actual == UseMemo(render.actualCF, actualCFDeps(data), actualCFDeps(data'),
                             ActualCFOf(data'))
       IN  render' =
               [view |-> ViewOf(loading', error'),
                actualCF |-> actual,
                stats |-> UseMemo(render.stats, statsDeps(render.actualCF, modelCF),
                                  statsDeps(actual, modelCF'), stats(actual, modelCF'))]
    /\ sweep' =
           IF render'.view # "dashboard" THEN Null
           ELSE IF sweep = Null
           THEN MountCapacitySweep(SweepProps(render'.actualCF, modelCF',
                                              multiResourceData', params'))
           ELSE RenderCapacitySweep(
                    sweep,
                    SweepProps(render.actualCF, modelCF, multiResourceData, params),
                    SweepProps(render'.actualCF, modelCF', multiResourceData', params'),
                    sweep.advancedMode)

\* The first render of App, every memo computed on the initial state.
FirstRender ==
    [view |-> ViewOf(TRUE, Null), actualCF |-> ActualCFOf(Null),
     stats |-> stats(ActualCFOf(Null), RenderModelCF(Null, OPTIMAL_PARAMS))]

\* After construction: the module constants as constants.js builds them, every
\* useState at its initial value (params is the object OPTIMAL_PARAMS), the first
\* render done.
Init ==
    /\ call = NoCall
    /\ presets = [optimal |-> OPTIMAL_PARAMS, default |-> DEFAULT_PARAMS]
    /\ data = Null
    /\ multiResourceData = Null
    /\ loading = TRUE
    /\ error = Null
    /\ params = presets.optimal
    /\ modelCF = RenderModelCF(Null, presets.optimal)
    /\ render = FirstRender
    /\ sweep = Null

\* Promise.all resolved: setData, setMultiResourceData, setLoading(false), render.
LoadResolved ==
    /\ loading
    /\ \E load \in AppLoads :
        /\ data' = load.data
        /\ multiResourceData' = load.multi
    /\ loading' = FALSE
    /\ UNCHANGED <<call, presets, error, params>>
    /\ Render

\* Faulty variant: the two files are awaited one after the other and setData is
\* called before the second fetch, so that its failure leaves data set.
LoadRejected_PartialLoad ==
    /\ loading
    /\ \E m \in LoadErrors, load \in AppLoads :
        /\ error' = [message |-> m]
        /\ data' = IF m = "Failed to load multi-resource data" THEN load.data ELSE data
    /\ loading' = FALSE
    /\ UNCHANGED <<call, presets, multiResourceData, params>>
    /\ Render

\* Promise.all rejected: setError(err.message), setLoading(false), render.
LoadRejected ==
    /\ loading
    /\ \E m \in LoadErrors : error' = [message |-> m]
    /\ loading' = FALSE
    /\ UNCHANGED <<call, presets, data, multiResourceData, params>>
    /\ Render

\* The sliders and the preset buttons exist once the dashboard is rendered.
PanelRendered == ~loading /\ error = Null

\* Faulty variant: the update writes prev[name] = value and returns prev, which
\* also writes to the preset object that prev is.
paramsUpdater_InPlace(prev, name, value, objects) ==
    LET edited == [prev EXCEPT ![name] = value]
    IN  [params |-> edited,
         presets |-> [k \in DOMAIN objects |-> IF objects[k] = prev THEN edited ELSE objects[k]]]

\* Faulty variant: the new object is built from DEFAULT_PARAMS instead of prev.
paramsUpdater_FromDefault(prev, name, value, objects) ==
    [params |-> [objects.default EXCEPT ![name] = value], presets |-> objects]

\* (prev) => ({ ...prev, [name]: value }): the new state is a new object, and the
\* objects of constants.js are left as they are.
paramsUpdater(prev, name, value, objects) ==
    [params |-> [prev EXCEPT ![name] = value], presets |-> objects]

\* handleParamChange(name, value), from a slider of ParameterPanel, and the render.
HandleParamChange ==
    /\ PanelRendered
    /\ \E name \in ParamNames :
        \E value \in SliderStops(name) :
            LET updated == paramsUpdater(params, name, value, presets)
            IN  /\ params' = updated.params
                /\ presets' = updated.presets
                /\ call' = [fn |-> "handleParamChange", name |-> name]
    /\ UNCHANGED <<data, multiResourceData, loading, error>>
    /\ Render

\* handleReset(type), from a preset button of ParameterPanel, and the render.
\* edited: the parameters replaced were neither preset.
HandleReset ==
    /\ PanelRendered
    /\ \E type \in {"optimal", "default"} :
        /\ params' = IF type = "optimal" THEN presets.optimal ELSE presets.default
        /\ call' = [fn |-> "handleReset", type |-> type,
                    edited |-> params \notin {presets.optimal, presets.default}]
    /\ UNCHANGED <<presets, data, multiResourceData, loading, error>>
    /\ Render

\* setAdvancedMode(e.target.checked), from the checkbox of CapacitySweep, and the
\* render of CapacitySweep with the props of the last render of App.
SetAdvancedMode ==
    /\ PanelRendered
    /\ LET props == SweepProps(render.actualCF, modelCF, multiResourceData, params)
       IN  sweep' = RenderCapacitySweep(sweep, props, props, ~sweep.advancedMode)
    /\ UNCHANGED <<call, presets, data, multiResourceData, loading, error, params, modelCF,
                   render>>

Next ==
    \/ LoadResolved
    \/ LoadRejected
    \/ HandleParamChange
    \/ HandleReset
    \/ SetAdvancedMode

Spec == Init /\ [][Next]_vars

(***************************************************************************)
(* Claims about the power-curve model                                      *)
(***************************************************************************)
Hours == IF call.fn \in {"modelCF", "calculateModelCF"} THEN 1..Len(call.hourly) ELSE {}

\* C1: applyPowerCurve, and every hour of the App's model series, yields exactly 0
\* when the hub-height speed is below cutIn or above cutOut, for every parameter
\* tuple; a speed above cutOut yields 0 even when it is at or above ratedSpeed.
C1_ZeroOutsideCutInCutOut ==
    /\ call.fn = "applyPowerCurve" =>
           ((Lt(call.ws, call.p.cutIn) \/ Gt(call.ws, call.p.cutOut)) => call.ret = Zero)
    /\ call.fn = "modelCF" =>
           \A i \in Hours :
               (Lt(call.trace[i].ws, call.p.cutIn) \/ Gt(call.trace[i].ws, call.p.cutOut))
                   => call.ret[i] = Zero

\* C1 witness: a speed above cutOut and above ratedSpeed, with a non-zero maxCf, gave 0.
C1_Witness ==
    /\ call.fn = "applyPowerCurve"
    /\ Gt(call.ws, call.p.cutOut)
    /\ Ge(call.ws, call.p.ratedSpeed)
    /\ Lt(call.p.cutIn, call.p.ratedSpeed)
    /\ Lt(call.p.ratedSpeed, call.p.cutOut)
    /\ call.p.maxCf # Zero
    /\ call.ret = Zero

Ordered(p) == Lt(p.cutIn, p.ratedSpeed) /\ Lt(p.ratedSpeed, p.cutOut)

\* C2: with cutIn < ratedSpeed < cutOut, every speed with
\* ratedSpeed <= speed <= cutOut yields exactly maxCf, in powerCurve.js and in the
\* local applyPowerCurve of CapacitySweep, the two end points included.
C2_FlatTopIsMaxCf ==
    /\ call.fn = "applyPowerCurve" =>
           ((Ordered(call.p) /\ Ge(call.ws, call.p.ratedSpeed) /\ Le(call.ws, call.p.cutOut))
                => call.ret = call.p.maxCf)
    /\ call.fn = "sweepApplyPowerCurve" =>
           ((Ordered(call.p) /\ Ge(call.ws, call.p.ratedSpeed) /\ Le(call.ws, call.p.cutOut))
                => call.ret = call.p.maxCf)

\* C2 witness: a speed equal to cutOut, under ordered parameters, gave a non-zero maxCf.
C2_Witness ==
    /\ call.fn = "applyPowerCurve"
    /\ Ordered(call.p)
    /\ call.ws = call.p.cutOut
    /\ call.p.maxCf # Zero
    /\ call.ret = call.p.maxCf

InUnitRange(cf, maxCf) == IsFinite(cf) /\ Ge(cf, Zero) /\ Le(cf, maxCf)

\* C3: for every finite speed and every valid parameter tuple the capacity factor
\* lies in [0, maxCf], for applyPowerCurve, for every element of
\* calculateModelCF and for every element of the App's model series.
C3_WithinZeroAndMaxCf ==
    /\ call.fn = "applyPowerCurve" =>
           (ValidParams(call.p) => InUnitRange(call.ret, call.p.maxCf))
    /\ call.fn \in {"modelCF", "calculateModelCF"} =>
           (ValidParams(call.p) =>
                \A i \in Hours : InUnitRange(call.ret[i], call.p.maxCf))

\* C3 witness: an hour of the App's series on the ramp, strictly between 0 and maxCf.
C3_Witness ==
    /\ call.fn = "modelCF"
    /\ ValidParams(call.p)
    /\ \E i \in Hours :
           /\ call.trace[i].path = "ramp"
           /\ Gt(call.ret[i], Zero)
           /\ Lt(call.ret[i], call.p.maxCf)

InRamp(ws, p) == Ge(ws, p.cutIn) /\ Lt(ws, p.ratedSpeed) /\ Le(ws, p.cutOut)

\* C4: on the ramp (cutIn <= speed < ratedSpeed, speed <= cutOut) applyPowerCurve
\* returns ((speed - cutIn) / (ratedSpeed - cutIn))^exponent * maxCf, stated with the
\* denominator multiplied out: cf * (ratedSpeed - cutIn)^exponent =
\* (speed - cutIn)^exponent * maxCf.  The value never exceeds maxCf, and with
\* exponent > 0 and maxCf > 0 it stays strictly below maxCf before ratedSpeed.
C4_RampIsScaledByMaxCf ==
    call.fn = "applyPowerCurve" =>
        (InRamp(call.ws, call.p) =>
            /\ Mul(call.ret, PowInt(Sub(call.p.ratedSpeed, call.p.cutIn), call.p.exponent.n))
                   = Mul(PowInt(Sub(call.ws, call.p.cutIn), call.p.exponent.n), call.p.maxCf)
            /\ Le(call.ret, call.p.maxCf)
            /\ (Gt(call.p.exponent, Zero) /\ Gt(call.p.maxCf, Zero))
                   => Lt(call.ret, call.p.maxCf))

\* C4 witness: cutIn 1.5, ratedSpeed 8.9, maxCf 0.84, speed 5.2 is half way up the
\* ramp; with exponent 2 the result is 0.25 * 0.84 = 0.21.
C4_Witness ==
    /\ call.fn = "applyPowerCurve"
    /\ call.ws = Num(26, 5)
    /\ call.p.cutIn = Num(3, 2)
    /\ call.p.ratedSpeed = Num(89, 10)
    /\ call.p.cutOut = N(25)
    /\ call.p.exponent = N(2)
    /\ call.p.maxCf = Num(21, 25)
    /\ call.ret = Num(21, 100)

\* C6: when ratedSpeed = cutIn, applyPowerCurve and the App's loop never take the
\* ramp branch (whose denominator would be zero), every speed with
\* cutIn <= speed <= cutOut yields maxCf, and the result is a finite number.
C6_RatedEqualsCutInSaturates ==
    /\ call.fn = "applyPowerCurve" =>
           (call.p.ratedSpeed = call.p.cutIn =>
               /\ call.path # "ramp"
               /\ IsFinite(call.ret)
               /\ (Ge(call.ws, call.p.cutIn) /\ Le(call.ws, call.p.cutOut))
                      => call.ret = call.p.maxCf)
    /\ call.fn = "modelCF" =>
           (call.p.ratedSpeed = call.p.cutIn =>
               \A i \in Hours :
                   /\ call.trace[i].path # "ramp"
                   /\ IsFinite(call.ret[i])
                   /\ (Ge(call.trace[i].ws, call.p.cutIn)
                           /\ Le(call.trace[i].ws, call.p.cutOut))
                          => call.ret[i] = call.p.maxCf)

\* C6 witness: ratedSpeed = cutIn = speed, at most cutOut, gave a non-zero maxCf.
C6_Witness ==
    /\ call.fn = "applyPowerCurve"
    /\ call.p.ratedSpeed = call.p.cutIn
    /\ call.ws = call.p.cutIn
    /\ Le(call.ws, call.p.cutOut)
    /\ call.p.maxCf # Zero
    /\ call.ret = call.p.maxCf

\* C7: with hubHeight = 100 the extrapolated speed is the input itself, for every
\* input and every shear value (undefined and NaN included), in
\* extrapolateWindSpeed, in the App's loop and in CapacitySweep's applyPowerCurve.
C7_HubHeight100IsIdentity ==
    /\ call.fn = "extrapolateWindSpeed" =>
           (call.hubHeight = N(100) => call.ret = call.x)
    /\ call.fn = "modelCF" =>
           (call.p.hubHeight = N(100) =>
               \A i \in Hours : call.trace[i].ws = call.hourly[i].wind_speed_100m)
    /\ call.fn = "sweepApplyPowerCurve" =>
           (call.p.hubHeight = N(100) => call.ws = call.speed)

\* C7 witness: extrapolateWindSpeed(9, 100, NaN) returned 9.
C7_Witness ==
    /\ call.fn = "extrapolateWindSpeed"
    /\ call.hubHeight = N(100)
    /\ call.shear = NaN
    /\ call.x = N(9)
    /\ call.ret = N(9)

(***************************************************************************)
(* Claims about the series transform                                       *)
(***************************************************************************)
\* C5 (as claimed): the App's model series has the length and order of the hourly
\* records and equals calculateModelCF(records, params) for every dataset and
\* parameter tuple, and CapacitySweep's applyPowerCurve is the same chain of
\* extrapolateWindSpeed and applyPowerCurve.
C5_AppSeriesEqualsCalculateModelCF ==
    /\ call.fn = "modelCF" =>
           /\ Len(call.ret) = Len(call.hourly)
           /\ call.ret = calculateModelCF(call.hourly, call.p)
    /\ call.fn = "sweepApplyPowerCurve" =>
           (~IsUndefined(call.shear) =>
               call.ret = applyPowerCurve(
                              extrapolateWindSpeed(call.speed, call.p.hubHeight, call.shear),
                              call.p))

\* The shear exponent the claim assigns to a record: its own when it has one.
ClaimedShear(hour) ==
    IF IsUndefined(hour.shear_exponent) THEN DefaultShear ELSE hour.shear_exponent

\* C8 (as claimed): the shear exponent used for hour i is the record's own whenever
\* the record supplies one and 0.14 only when it supplies none; the wind speed is
\* passed through as it is.
C8_ShearIsRecordsOwnOrDefault ==
    /\ call.fn = "modelCF" =>
           \A i \in Hours :
               /\ call.windData.shears[i] = ClaimedShear(call.hourly[i])
               /\ call.windData.speeds[i] = call.hourly[i].wind_speed_100m
    /\ call.fn = "calculateModelCF" =>
           \A i \in Hours :
               call.ret[i] = applyPowerCurve(
                                 extrapolateWindSpeed(call.hourly[i].wind_speed_100m,
                                                      call.p.hubHeight,
                                                      ClaimedShear(call.hourly[i])),
                                 call.p)

(***************************************************************************)
(* Claims about the statistics engine                                      *)
(***************************************************************************)
ZeroRegression == [slope |-> Zero, intercept |-> Zero, r |-> RootZero, r2 |-> Zero]

\* C9: for series whose lengths differ or are zero, calculateCorrelation returns the
\* number 0 and linearRegression returns {slope: 0, intercept: 0, r: 0, r2: 0}.
C9_DegenerateLengthsGiveZero ==
    /\ call.fn = "calculateCorrelation" =>
           ((Len(call.x) # Len(call.y) \/ Len(call.x) = 0) => call.ret = RootZero)
    /\ call.fn = "linearRegression" =>
           ((Len(call.x) # Len(call.y) \/ Len(call.x) = 0) => call.ret = ZeroRegression)

\* C9 witness: calculateCorrelation on a non-constant x longer than a non-empty y.
C9_Witness ==
    /\ call.fn = "calculateCorrelation"
    /\ Len(call.x) > Len(call.y)
    /\ Len(call.y) > 0
    /\ \E i, j \in 1..Len(call.x) : call.x[i] # call.x[j]
    /\ call.ret = RootZero

IsConstant(s) == \A i, j \in 1..Len(s) : s[i] = s[j]

RootOne == [sgn |-> 1, sq |-> One]

\* C11: for every non-constant series x, calculateCorrelation(x, x) is 1; two
\* identical non-constant series give r = 1 and r2 = 1 from linearRegression,
\* calculateR2 and the stats of App.
C11_SelfCorrelationIsOne ==
    (call.fn \in {"calculateCorrelation", "linearRegression", "calculateR2", "stats"}
         /\ call.x = call.y /\ ~IsConstant(call.x))
        => CASE call.fn = "calculateCorrelation" -> call.ret = RootOne
             [] call.fn = "calculateR2" -> call.ret = One
             [] OTHER -> call.ret.r = RootOne /\ call.ret.r2 = One

\* C11 witness: calculateCorrelation(x, x) = 1 on a series of three different values.
C11_Witness ==
    /\ call.fn = "calculateCorrelation"
    /\ call.x = call.y
    /\ Len(call.x) = 3
    /\ Cardinality({call.x[i] : i \in 1..3}) = 3
    /\ call.ret = RootOne

\* The sum over i of a[i] * b[i], for series of one length.
RECURSIVE SumProducts(_, _, _)
SumProducts(a, b, k) == IF k = 0 THEN Zero ELSE Add(SumProducts(a, b, k - 1), Mul(a[k], b[k]))

\* n times the sum of products of deviations, from the raw moments:
\* n * sum(a[i] * b[i]) - sum(a) * sum(b).
RawCov(a, b) == Sub(Mul(N(Len(a)), SumProducts(a, b, Len(a))), Mul(Sum(a), Sum(b)))

\* The squared Pearson coefficient of two series, 0 for degenerate input:
\* q * (Sxx * Syy) = Sxy^2 when the lengths agree and Sxx * Syy is not 0.
IsSquaredCorrelation(q, x, y) ==
    IF Len(x) # Len(y) \/ Len(x) = 0 \/ Mul(RawCov(x, x), RawCov(y, y)) = Zero
    THEN q = Zero
    ELSE /\ IsFinite(q)
         /\ Mul(q, Mul(RawCov(x, x), RawCov(y, y))) = Mul(RawCov(x, y), RawCov(x, y))

\* The residual-based coefficient of determination 1 - SSres / SStot, stated
\* with SStot multiplied out: (1 - q) * SStot = SSres.
IsResidualR2(q, actual, predicted) ==
    Mul(Sub(One, q), RawCov(actual, actual))
        = Mul(N(Len(actual)), SumSquaredResiduals(actual, predicted, Len(actual)))

\* C12: the R2 returned by calculateR2, the r2 field of linearRegression and the
\* r2 of the App's stats are the square of the Pearson correlation of the same
\* two series (0 for degenerate input), never the residual-based coefficient.
C12_R2IsSquaredCorrelation ==
    /\ call.fn = "calculateR2" => IsSquaredCorrelation(call.ret, call.x, call.y)
    /\ call.fn \in {"linearRegression", "stats"} =>
           /\ IsSquaredCorrelation(call.ret.r2, call.x, call.y)
           /\ call.ret.r2 = call.ret.r.sq

\* C12 witness: calculateR2 returned the squared correlation of two series for
\* which the residual-based coefficient is a different number.
C12_Witness ==
    /\ call.fn = "calculateR2"
    /\ Len(call.x) = Len(call.y)
    /\ RawCov(call.x, call.x) # Zero
    /\ RawCov(call.x, call.y) # Zero
    /\ Gt(call.ret, Zero)
    /\ ~IsResidualR2(call.ret, call.x, call.y)

\* C13: for equal-length non-empty series linearRegression returns
\* slope = sum(dx * dy) / sum(dx^2) and intercept = mean(y) - slope * mean(x); when
\* sum(dx^2) is 0 the slope is 0 and the intercept is mean(y), all of them finite.
C13_RegressionIsLeastSquares ==
    call.fn = "linearRegression" =>
        ((Len(call.x) = Len(call.y) /\ Len(call.x) > 0) =>
            LET n == N(Len(call.x))
                sxx == RawCov(call.x, call.x)
                sxy == RawCov(call.x, call.y)
            IN  /\ IsFinite(call.ret.slope)
                /\ IsFinite(call.ret.intercept)
                /\ IF sxx = Zero THEN call.ret.slope = Zero
                   ELSE Mul(call.ret.slope, sxx) = sxy
                /\ Mul(n, call.ret.intercept)
                       = Sub(Sum(call.y), Mul(call.ret.slope, Sum(call.x))))

\* C13 witness: a constant x against a non-constant y: slope 0, intercept mean(y) > 0.
C13_Witness ==
    /\ call.fn = "linearRegression"
    /\ Len(call.x) = Len(call.y)
    /\ Len(call.x) > 1
    /\ IsConstant(call.x)
    /\ ~IsConstant(call.y)
    /\ call.ret.slope = Zero
    /\ Gt(call.ret.intercept, Zero)
    /\ Mul(N(Len(call.y)), call.ret.intercept) = Sum(call.y)

\* The number of positions of s that hold v.
Occurrences(s, v) == Cardinality({i \in 1..Len(s) : s[i] = v})

\* C14: for a series of numbers the cf values of generateDurationCurve, in output
\* order, are a permutation of the input in non-increasing order; the output is as
\* long as the input and entry i (from 0) carries hour = i.
C14_DurationCurveIsSortedPermutation ==
    call.fn = "generateDurationCurve" =>
        /\ Len(call.ret) = Len(call.x)
        /\ \A i \in 1..Len(call.ret) : call.ret[i].hour = i - 1
        /\ \A i \in 1..(Len(call.ret) - 1) : Ge(call.ret[i].cf, call.ret[i + 1].cf)
        /\ \A v \in StatValues :
               Occurrences([i \in 1..Len(call.ret) |-> call.ret[i].cf], v)
                   = Occurrences(call.x, v)

\* C14 witness: the input 0, 1, 1/2 came out as 1, 1/2, 0.
C14_Witness ==
    /\ call.fn = "generateDurationCurve"
    /\ call.x = <<Zero, One, Num(1, 2)>>
    /\ call.ret = <<[hour |-> 0, cf |-> One], [hour |-> 1, cf |-> Num(1, 2)],
                    [hour |-> 2, cf |-> Zero]>>

(***************************************************************************)
(* Claims about the capacity-matching sweep                                *)
(***************************************************************************)
NonNegativeSeries(cf) == \A i \in 1..Len(cf) : IsFinite(cf[i]) /\ Ge(cf[i], Zero)

C16_SweepStartsAtZeroAndIsMonotone ==
    (call.fn = "chartData" /\ ~call.blend) =>
        /\ call.ret[1].genPct = Zero
        /\ call.ret[1].actual = Zero
        /\ call.ret[1].model = Zero
        /\ \A k \in 1..(numPoints - 1) :
               /\ Lt(call.ret[k].genPct, call.ret[k + 1].genPct)
               /\ Le(call.ret[k].actual, call.ret[k + 1].actual)
               /\ Le(call.ret[k].model, call.ret[k + 1].model)

\* The total generation of a series scaled for genPct = 100 with the average
\* CF avgCF: the sum over the hours of cf[i] * (100 / 100) / (avgCF * n).
ScaledGenerationAt100(cf, avgCF) ==
    GeneratedPrefix(cf, Div(One, Mul(avgCF, N(Len(cf)))), Len(cf))

\* C17 (as claimed): each series of the sweep is scaled with its own average CF,
\* so that at genPct = 100 its total scaled generation is the annual load, 1.
C17_ScaleUsesOwnAverage ==
    (call.fn = "chartData" /\ ~call.blend
         /\ Gt(mean(call.actualCF), Zero) /\ Gt(mean(call.modelCF), Zero)) =>
        /\ call.avgCF.actual = mean(call.actualCF)
        /\ call.avgCF.model = mean(call.modelCF)
        /\ ScaledGenerationAt100(call.actualCF, call.avgCF.actual) = One
        /\ ScaledGenerationAt100(call.modelCF, call.avgCF.model) = One

\* The sum over the first k hours of min(mainWindGen + solarGen + wind2Gen, hourlyLoad).
RECURSIVE ClampedTotals(_, _)
ClampedTotals(hours, k) ==
    IF k = 0 THEN Zero
    ELSE Add(ClampedTotals(hours, k - 1),
             Min(Add(Add(hours[k].mainWindGen, hours[k].solarGen), hours[k].wind2Gen),
                 hours[k].hourlyLoad))

C19_ResetAppliesThePreset ==
    /\ presets = [optimal |-> OPTIMAL_PARAMS, default |-> DEFAULT_PARAMS]
    /\ call.fn = "handleReset" =>
           /\ DOMAIN params = ParamNames
           /\ \A name \in ParamNames :
                  params[name] = IF call.type = "optimal" THEN OPTIMAL_PARAMS[name]
                                 ELSE DEFAULT_PARAMS[name]

\* C19 witness: 'Reset to Optimal' on parameters that had been edited away from
\* both presets.
C19_Witness ==
    /\ call.fn = "handleReset"
    /\ call.type = "optimal"
    /\ call.edited
    /\ params = OPTIMAL_PARAMS

\* C20 (as claimed): the optimal preset, which is the initial parameter state and
\* the result of 'Reset to Optimal', is power exponent 2.5, cut-in speed 1.5 m/s,
\* rated speed 8.9 m/s, cut-out speed 25 m/s and max CF 0.84.
C20_OptimalPresetIsTheValidationStudys ==
    (call = NoCall \/ (call.fn = "handleReset" /\ call.type = "optimal")) =>
        /\ params.exponent = Num(5, 2)
        /\ params.cutIn = Num(3, 2)
        /\ params.ratedSpeed = Num(89, 10)
        /\ params.cutOut = N(25)
        /\ params.maxCf = Num(21, 25)

C27_ZeroAverageGivesZero ==
    /\ (call.fn = "calculateMatchAtPct" /\ call.avgCF = mean(call.cfProfile)
            /\ call.avgCF = Zero)
           => call.ret = Zero
    /\ (call.fn = "calculateMultiResourceMatch"
            /\ Zero \in {call.mainWindAvgCF, call.solarAvgCF, call.wind2AvgCF})
           => IsFinite(call.ret)

\* C23 (as claimed): calculateCapacitySweep invoked with fewer than 2 points is
\* rejected with an error; it does not return, with or without points computed
\* from the step (maxGwh - minGwh) / (numPoints - 1).
C23_FewerThanTwoPointsRejected ==
    (call.fn = "calculateCapacitySweep" /\ call.numPoints < 2)
        => call.ret.outcome = "throws"

(***************************************************************************)
(* Claims about the duration curves                                        *)
(***************************************************************************)
\* C28 (as claimed): the downsampling loop of DurationCurves terminates for every
\* length of the actual series, lengths 1 to 99 included: it pushes one row per
\* iteration and is over after at most as many rows as the series has hours.
C28_DownsamplingLoopTerminates ==
    call.fn = "DurationCurves" => Len(call.data) <= Len(call.actualDuration)

\* C29: generateDurationCurve leaves its input array as it was and sorts a copy;
\* after DurationCurves has built both curves, actualCF and modelCF are in their
\* hour-of-year order, element for element what they were, and the statistics of
\* the two arrays are those of the series before the curves were built.
C29_DurationCurveLeavesInputUnchanged ==
    /\ call.fn = "generateDurationCurve" =>
           /\ call.cfArray = call.x
           /\ call.ret = [k \in 1..Len(call.x) |->
                             [hour |-> k - 1,
                              cf |-> generateDurationCurveArrays(call.x).sorted[k]]]
    /\ call.fn = "DurationCurves" =>
           /\ call.actualCF = call.x
           /\ call.modelCF = call.y
           /\ stats(call.actualCF, call.modelCF) = stats(call.x, call.y)

\* C29 witness: the duration curves of two series that are not in descending
\* order have been built, and the series are still in their order.
C29_Witness ==
    /\ call.fn = "DurationCurves"
    /\ call.x = <<Zero, One>>
    /\ call.y = <<Zero, One>>
    /\ call.actualDuration = <<[hour |-> 0, cf |-> One], [hour |-> 1, cf |-> Zero]>>
    /\ call.actualCF = <<Zero, One>>
    /\ call.modelCF = <<Zero, One>>

(***************************************************************************)
(* Claims about the dashboard                                              *)
(***************************************************************************)
\* C24: in every state reached from the initial preset by slider edits within
\* the sliders' ranges and by preset resets, cutIn < ratedSpeed < cutOut.
C24_ThresholdsStayOrdered ==
    /\ Lt(params.cutIn, params.ratedSpeed)
    /\ Lt(params.ratedSpeed, params.cutOut)

\* C24 witness: the three sliders have been moved as close together as their
\* ranges allow, cut-in to its highest and rated and cut-out to their lowest stop.
C24_Witness ==
    /\ call.fn = "handleParamChange"
    /\ params.cutIn = ParamMax("cutIn")
    /\ params.ratedSpeed = ParamMin("ratedSpeed")
    /\ params.cutOut = ParamMin("cutOut")

\* C25: a step of handleParamChange(name, value) changes only the named
\* parameter (the other five keep the values they had before the step, the named
\* one holds the slider's value) and leaves DEFAULT_PARAMS and OPTIMAL_PARAMS,
\* one of which may be the object held before, as constants.js defines them.
C25_EditChangesOnlyTheNamedParameter ==
    [][call'.fn = "handleParamChange" =>
           /\ DOMAIN params' = ParamNames
           /\ \A other \in ParamNames \ {call'.name} : params'[other] = params[other]
           /\ params'[call'.name] \in SliderStops(call'.name)
           /\ presets' = presets
           /\ presets' = [optimal |-> OPTIMAL_PARAMS, default |-> DEFAULT_PARAMS]]_vars

\* C25 witness: the maximum CF was edited while the optimal preset was held; the
\* other five parameters are the preset's.
C25_Witness ==
    /\ call.fn = "handleParamChange"
    /\ call.name = "maxCf"
    /\ params = [OPTIMAL_PARAMS EXCEPT !.maxCf = Num(7, 10)]
    /\ presets.optimal = OPTIMAL_PARAMS

\* The stats of a render without series.
ZeroStats == [r |-> RootZero, r2 |-> Zero, actualAvgCF |-> Zero, modelAvgCF |-> Zero]

\* C22: in every state where data is null (loading or error) the model series and
\* the actual series are empty and the stats are all 0, and the dashboard with
\* its charts and sliders is rendered only in states where data is not null.
C22_NothingComputedBeforeTheLoad ==
    /\ data = Null =>
           /\ modelCF = <<>>
           /\ render.actualCF = <<>>
           /\ render.stats = ZeroStats
           /\ render.view \in {"loading", "error"}
           /\ sweep = Null
           /\ ~PanelRendered
    /\ render.view = "dashboard" => data # Null
    /\ sweep # Null => data # Null

\* C22 witness: the load was rejected, the error screen is shown and nothing was
\* computed.
C22_Witness ==
    /\ ~loading
    /\ error = [message |-> "Failed to load multi-resource data"]
    /\ data = Null
    /\ render.view = "error"
    /\ render.stats = ZeroStats

\* C21: in every state, and so after every parameter edit and preset reset, the
\* model series, the statistics, the second wind series and the sweep data of the
\* last render are the ones computed from the current parameters and data (the
\* sweep data: computed from the current series, resources and blend state).
C21_DerivedOutputsAreCurrent ==
    /\ modelCF = RenderModelCF(data, params)
    /\ render.actualCF = ActualCFOf(data)
    /\ render.stats = stats(ActualCFOf(data), RenderModelCF(data, params))
    /\ sweep # Null =>
           LET w == Wind2CFOf(multiResourceData, params)
           IN  /\ sweep.wind2CF = w
               /\ sweep.wind2AvgCF = wind2AvgCFOf(w)
               /\ sweep.chartDataFor =
                      chartDataInputs(ActualCFOf(data), RenderModelCF(data, params),
                                      multiResourceData, w, wind2AvgCFOf(w),
                                      sweep.advancedMode, sweep.solarPct,
                                      sweep.wind2Pct)

\* C21 witness: in advanced mode, on a dataset of two hours, the maximum CF was
\* edited to 0.7; the rated hour of the model series and the rated hour of the
\* second wind series are at 0.7, and the blended sweep is shown.
C21_Witness ==
    /\ call.fn = "handleParamChange"
    /\ call.name = "maxCf"
    /\ params.maxCf = Num(7, 10)
    /\ params.exponent = N(2)
    /\ sweep # Null
    /\ sweep.advancedMode
    /\ Len(modelCF) = 2
    /\ modelCF[2] = Num(7, 10)
    /\ sweep.wind2CF[1] = Num(7, 10)
    /\ chartDataBlends(multiResourceData, sweep.wind2CF, TRUE,
                       sweep.solarPct, sweep.wind2Pct)
    /\ SweepChartData(sweep)[numPoints].model
           = calculateMultiResourceMatch(modelCF, Num(3, 4), <<One, Zero>>, Num(1, 2),
                                         sweep.wind2CF,
                                         mean(sweep.wind2CF), N(150), N(30), N(20))

\* The two outcomes of the load.
BothLoaded == data # Null /\ multiResourceData # Null /\ error = Null

LoadFailed == error # Null /\ data = Null /\ multiResourceData = Null

\* C26: the step with which the two fetches settle, the only step there is while
\* loading is true, makes loading false; once loading is false it stays false,
\* and exactly one of the two outcomes holds: both files stored and no error, or
\* an error and neither file stored.
C26_LoadSettlesOneWay ==
    /\ [][loading => ~loading']_vars
    /\ [][~loading => ~loading']_vars
    /\ [](loading => (data = Null /\ multiResourceData = Null /\ error = Null))
    /\ [](~loading => (BothLoaded # LoadFailed))

\* C26 witness: the load was rejected because a fetch failed, and neither file is
\* stored.
C26_Witness ==
    /\ ~loading
    /\ error = [message |-> "Failed to fetch"]
    /\ LoadFailed
    /\ ~BothLoaded

====
